---- MODULE Spec2Model ----
(***************************************************************************)
(* Model of the DecoSolution airline-passenger demo server.                *)
(*                                                                         *)
(* Texts (CSV content, column values) are sequences of characters.  Each   *)
(* element is either a separator or whitespace character (",", "\n", " ")  *)
(* or an atom: a TLA+ string standing for a run of one or more characters  *)
(* that holds no comma, no newline and no whitespace.  split and trim      *)
(* look only at separators and whitespace, so they act on such a sequence  *)
(* exactly as the JavaScript functions act on the text.  The empty string  *)
(* is <<>>; SQL NULL / JS null is the reserved one-element text NULL.      *)
(***************************************************************************)
EXTENDS Integers, Sequences, FiniteSets, TLC

VARIABLES deployment, todos, passengers, last, csvSource, csvContent, parsed,
          requests, client

vars == <<deployment, todos, passengers, last, csvSource, csvContent, parsed,
          requests, client>>

-----------------------------------------------------------------------------
(* Bounds of the model *)

MaxTodos == 2
MaxPassengers == 3
MaxCsvLines == 2

-----------------------------------------------------------------------------
(* JavaScript string primitives used by the CSV code *)

NULL == <<"<null>">>

EMPTY == <<>>

IsWhitespace(c) == c \in {" ", "\n", "\t", "\r"}

(* the positions of s that hold no whitespace *)
inkPositions(s) == {i \in 1..Len(s) : ~IsWhitespace(s[i])}

Min(S) == CHOOSE x \in S : \A y \in S : x <= y

Max(S) == CHOOSE x \in S : \A y \in S : x >= y

(* s.trimStart(): s from its first character that is no whitespace *)
trimStart(s) ==
  IF inkPositions(s) = {} THEN <<>>
  ELSE SubSeq(s, Min(inkPositions(s)), Len(s))

(* s.trimEnd(): s up to its last character that is no whitespace *)
trimEnd(s) ==
  IF inkPositions(s) = {} THEN <<>>
  ELSE SubSeq(s, 1, Max(inkPositions(s)))

trim(s) == trimEnd(trimStart(s))

(* s.split(sep): the pieces between the separators, one more than there are
   separators; piece j runs from after separator j - 1 to before separator j *)
split(s, sep) ==
  LET at == {i \in 1..Len(s) : s[i] = sep}
      nth(j) == IF j = 0 THEN 0
                ELSE IF j = Cardinality(at) + 1 THEN Len(s) + 1
                ELSE CHOOSE i \in at : Cardinality({p \in at : p <= i}) = j
  IN [j \in 1..(Cardinality(at) + 1) |-> SubSeq(s, nth(j - 1) + 1, nth(j) - 1)]

(* a slice that drops nothing *)
slice1Keeps(a) == a

(* a.slice(1) *)
slice1(a) == IF Len(a) <= 1 THEN <<>> ELSE SubSeq(a, 2, Len(a))

(* a.slice(0, n) for an integer n (a negative n counts from the end) *)
slice0(a, n) ==
  IF n >= 0
  THEN SubSeq(a, 1, IF n < Len(a) THEN n ELSE Len(a))
  ELSE SubSeq(a, 1, IF Len(a) + n > 0 THEN Len(a) + n ELSE 0)

(* a string or null used as a condition *)
Truthy(v) == v # EMPTY /\ v # NULL

(* values[i] || dflt, with i the JavaScript (0-based) index *)
valueOr(values, i, dflt) ==
  IF i + 1 <= Len(values) /\ Truthy(values[i + 1]) THEN values[i + 1] ELSE dflt

(* lines.filter(line => line.trim()): the lines that are not blank *)
RECURSIVE nonBlank(_)
nonBlank(lines) ==
  IF lines = <<>> THEN <<>>
  ELSE IF trim(Head(lines)) # <<>> THEN <<Head(lines)>> \o nonBlank(Tail(lines))
  ELSE nonBlank(Tail(lines))

-----------------------------------------------------------------------------
(* CSV ingestion *)

CONFIRMED == <<"confirmed">>

(* the non-blank data lines of a CSV text: trim, split on newline, drop the
   header line, keep the lines that are not blank *)
dataLinesOf(csv) ==
  LET lines == split(trim(csv), "\n")
      dataLines == slice1(lines)
  IN nonBlank(dataLines)

(* an import that leaves every missing value null *)
importPassengerDataNulls(line) ==
  LET values == split(line, ",")
  IN [f \in {"firstName", "lastName", "email", "phone", "passportNumber",
             "nationality", "dateOfBirth", "seatNumber", "flightNumber",
             "departureCity", "arrivalCity", "departureDate", "ticketClass",
             "price", "status"} |->
        valueOr(values,
                CHOOSE i \in 0..14 :
                  <<"firstName", "lastName", "email", "phone", "passportNumber",
                    "nationality", "dateOfBirth", "seatNumber", "flightNumber",
                    "departureCity", "arrivalCity", "departureDate",
                    "ticketClass", "price", "status">>[i + 1] = f,
                IF f = "status" THEN CONFIRMED ELSE NULL)]

(* the passengerData object the import tool builds from one line *)
importPassengerData(line) ==
  LET values == split(line, ",")
  IN [firstName |-> valueOr(values, 0, EMPTY),
      lastName |-> valueOr(values, 1, EMPTY),
      email |-> valueOr(values, 2, EMPTY),
      phone |-> valueOr(values, 3, NULL),
      passportNumber |-> valueOr(values, 4, NULL),
      nationality |-> valueOr(values, 5, NULL),
      dateOfBirth |-> valueOr(values, 6, NULL),
      seatNumber |-> valueOr(values, 7, NULL),
      flightNumber |-> valueOr(values, 8, EMPTY),
      departureCity |-> valueOr(values, 9, EMPTY),
      arrivalCity |-> valueOr(values, 10, EMPTY),
      departureDate |-> valueOr(values, 11, EMPTY),
      ticketClass |-> valueOr(values, 12, NULL),
      price |-> valueOr(values, 13, NULL),
      status |-> valueOr(values, 14, CONFIRMED)]

(* the rows the import tool (and the populate tool of tools.ts) parses *)
importParse(csv) ==
  LET lines == dataLinesOf(csv)
  IN [k \in 1..Len(lines) |-> importPassengerData(lines[k])]

parseCSVLine(line) ==
  LET values == split(line, ",")
  IN [firstName |-> valueOr(values, 0, EMPTY),
      lastName |-> valueOr(values, 1, EMPTY),
      email |-> valueOr(values, 2, EMPTY),
      nationality |-> valueOr(values, 3, EMPTY),
      dateOfBirth |-> valueOr(values, 4, EMPTY),
      departureCity |-> valueOr(values, 5, EMPTY),
      arrivalCity |-> valueOr(values, 6, EMPTY),
      departureDate |-> valueOr(values, 7, EMPTY),
      distance |-> valueOr(values, 8, EMPTY),
      flightCost |-> valueOr(values, 9, EMPTY)]

parseCSVContent(csv) ==
  LET lines == dataLinesOf(csv)
  IN [k \in 1..Len(lines) |-> parseCSVLine(lines[k])]

-----------------------------------------------------------------------------
(* The store: tables todos and passengers (schema.ts) *)

PassengerColumns ==
  {"id", "firstName", "lastName", "email", "phone", "passportNumber",
   "nationality", "dateOfBirth", "seatNumber", "flightNumber", "departureCity",
   "arrivalCity", "departureDate", "ticketClass", "price", "status", "createdAt"}

NotNullColumns ==
  {"firstName", "lastName", "email", "flightNumber", "departureCity",
   "arrivalCity", "departureDate"}

(* columns without a default *)
columnDefaultNone(c) == NULL

(* the value a column takes when an insert does not give it *)
columnDefault(c) ==
  IF c = "status" THEN CONFIRMED
  ELSE IF c = "createdAt" THEN <<"CURRENT_TIMESTAMP">>
  ELSE NULL

RECURSIVE maxId(_)
maxId(table) ==
  IF table = <<>> THEN 0
  ELSE LET m == maxId(Tail(table))
       IN IF Head(table).id > m THEN Head(table).id ELSE m

(* an id taken from the number of rows *)
nextIdByCount(table) == Len(table) + 1

(* integer primary key: the store assigns the largest id in the table plus one *)
nextId(table) == maxId(table) + 1

Ids(table) == {table[k].id : k \in 1..Len(table)}

(* the row an insert of data stores: columns of the table only, the missing
   ones at their default, the id assigned by the store *)
passengerRow(table, data) ==
  [c \in PassengerColumns |->
     IF c = "id" THEN nextId(table)
     ELSE IF c \in DOMAIN data THEN data[c]
     ELSE columnDefault(c)]

(* the NOT NULL constraints reject the insert *)
violatesNotNull(data) ==
  \E c \in NotNullColumns : passengerRow(<<>>, data)[c] = NULL

(* a loop that goes on with the next row after an insert that failed *)
RECURSIVE insertEachSkips(_, _, _, _, _)
insertEachSkips(table, datas, count, callNo, fault) ==
  IF datas = <<>> THEN [table |-> table, count |-> count, failed |-> fault # 0]
  ELSE IF callNo = fault
  THEN insertEachSkips(table, Tail(datas), count, callNo + 1, fault)
  ELSE insertEachSkips(Append(table, passengerRow(table, Head(datas))),
                       Tail(datas), count + 1, callNo + 1, fault)

(* db.insert(passengersTable).values(data), one row after the other; call k of
   the run is store call number firstCall + k - 1 of the handler, and the store
   call numbered fault raises (0: none does).  The run stops at the first
   insert that raises; the rows inserted before it stay. *)
RECURSIVE insertEach(_, _, _, _, _)
insertEach(table, datas, count, callNo, fault) ==
  IF datas = <<>> THEN [table |-> table, count |-> count, failed |-> FALSE]
  ELSE IF callNo = fault \/ violatesNotNull(Head(datas))
  THEN [table |-> table, count |-> count, failed |-> TRUE]
  ELSE insertEach(Append(table, passengerRow(table, Head(datas))),
                  Tail(datas), count + 1, callNo + 1, fault)

-----------------------------------------------------------------------------
(* The record of the last call: its arguments, the store before it, the
   injected store fault and what the caller got (a message by its opening
   words) *)

NoStats ==
  [totalPassengers |-> -1, byTicketClass |-> <<>>, byStatus |-> <<>>,
   byFlight |-> <<>>, averagePrice |-> -1]

NoCall ==
  [op |-> "none", id |-> 0, context |-> <<>>, csv |-> <<>>, fault |-> 0,
   outcome |-> "none", success |-> FALSE, count |-> 0, message |-> "",
   rows |-> <<>>, stats |-> NoStats, again |-> FALSE,
   preTodos |-> <<>>, prePassengers |-> <<>>]

(* a call of op with the store as it is now *)
Call(op, fault) ==
  [NoCall EXCEPT !.op = op, !.fault = fault,
                 !.preTodos = todos, !.prePassengers = passengers]

(* history: the call before this one was a TOGGLE_TODO of the same id that
   returned / a POPULATE_TEST_DATA that returned success *)
toggledJustBefore(id) ==
  last.op = "toggleTodo" /\ last.outcome = "returned" /\ last.id = id

populatedJustBefore ==
  last.op = "populateTestData" /\ last.outcome = "returned" /\ last.success

(* the registered tools of the two server files: the tools array of tools.ts
   and the tools array at the end of schema.ts *)
Registered(tool) ==
  \/ /\ deployment = "tools.ts"
     /\ tool \in {"LIST_TODOS", "GENERATE_TODO_WITH_AI", "TOGGLE_TODO",
                  "DELETE_TODO", "IMPORT_PASSENGERS_FROM_CSV", "GET_PASSENGERS",
                  "GET_PASSENGER_STATS", "POPULATE_TEST_DATA"}
  \/ /\ deployment = "schema.ts"
     /\ tool \in {"GET_PASSENGERS", "CLEAR_DATABASE", "POPULATE_TEST_DATA"}

-----------------------------------------------------------------------------
(* Todo tools (tools.ts) *)

UNDEFINED == "<undefined>"

(* String(x) *)
String(x) == IF x = UNDEFINED THEN "undefined" ELSE x

(* what the text-generation collaborator may answer as object?.title *)
GeneratedTitles == {UNDEFINED, "", "Buy milk"}

(* todos.map(todo => ({...todo, completed: todo.completed === 1})) *)
todosView(table) ==
  [k \in 1..Len(table) |->
     [id |-> table[k].id, title |-> table[k].title,
      completed |-> (table[k].completed = 1)]]

(* a select that leaves the where clause out *)
selectTodoAnyId(table, id) ==
  IF table = <<>> THEN <<>> ELSE <<Head(table)>>

(* select().from(todosTable).where(eq(id)).limit(1) *)
RECURSIVE selectTodo(_, _)
selectTodo(table, id) ==
  IF table = <<>> THEN <<>>
  ELSE IF Head(table).id = id THEN <<Head(table)>>
  ELSE selectTodo(Tail(table), id)

(* a toggle that only ever marks a todo completed *)
newCompletedStatusSet(currentTodo) == 1

(* currentTodo[0].completed === 1 ? 0 : 1 *)
newCompletedStatus(currentTodo) == IF currentTodo.completed = 1 THEN 0 ELSE 1

(* an update that leaves the where clause out *)
updateCompletedAll(table, id, completed) ==
  [k \in 1..Len(table) |-> [table[k] EXCEPT !.completed = completed]]

(* update(todosTable).set({completed}).where(eq(id)) *)
updateCompleted(table, id, completed) ==
  [k \in 1..Len(table) |->
     IF table[k].id = id THEN [table[k] EXCEPT !.completed = completed]
     ELSE table[k]]

(* a delete that also removes the rows before the one asked for *)
deleteTodoRowUpTo(table, id) ==
  SelectSeq(table, LAMBDA todo : todo.id > id)

(* delete(todosTable).where(eq(id)) *)
RECURSIVE deleteTodoRow(_, _)
deleteTodoRow(table, id) ==
  IF table = <<>> THEN <<>>
  ELSE IF Head(table).id = id THEN deleteTodoRow(Tail(table), id)
  ELSE <<Head(table)>> \o deleteTodoRow(Tail(table), id)

TodoIds == 1..(MaxTodos + 1)

listTodos(fault) ==
  /\ Registered("LIST_TODOS")
  /\ last' = IF fault # 0
             THEN [Call("listTodos", fault) EXCEPT !.outcome = "StoreError"]
             ELSE [Call("listTodos", fault) EXCEPT
                     !.outcome = "returned", !.rows = todosView(todos)]
  /\ UNCHANGED <<deployment, todos, passengers, csvSource, csvContent, parsed,
               requests, client>>

(* fault 1: getDb raises; fault 2: the insert raises; aiFails: the
   collaborator call itself raises *)
generateTodo(generated, aiFails, fault) ==
  /\ Registered("GENERATE_TODO_WITH_AI")
  /\ nextId(todos) <= MaxTodos
  /\ LET generatedTodoTitle == String(generated)
         call == [Call("generateTodo", fault) EXCEPT
                    !.context = [title |-> generated, aiFails |-> aiFails]]
         row == [id |-> nextId(todos), title |-> generatedTodoTitle,
                 completed |-> 0]
     IN IF fault = 1 THEN
          /\ last' = [call EXCEPT !.outcome = "StoreError"]
          /\ todos' = todos
        ELSE IF aiFails THEN
          /\ last' = [call EXCEPT !.outcome = "CollaboratorError"]
          /\ todos' = todos
        ELSE IF generatedTodoTitle = "" THEN
          /\ last' = [call EXCEPT !.outcome = "GenerationError"]
          /\ todos' = todos
        ELSE IF fault = 2 THEN
          /\ last' = [call EXCEPT !.outcome = "StoreError"]
          /\ todos' = todos
        ELSE
          /\ todos' = Append(todos, row)
          /\ last' = [call EXCEPT
                        !.outcome = "returned", !.id = row.id,
                        !.rows = <<[id |-> row.id, title |-> generatedTodoTitle,
                                    completed |-> FALSE]>>]
  /\ UNCHANGED <<deployment, passengers, csvSource, csvContent, parsed,
               requests, client>>

(* fault 1: getDb, 2: the select, 3: the update *)
toggleTodo(id, fault) ==
  /\ Registered("TOGGLE_TODO")
  /\ LET call == [Call("toggleTodo", fault) EXCEPT
                   !.id = id, !.again = toggledJustBefore(id)]
         currentTodo == selectTodo(todos, id)
     IN IF fault \in {1, 2} THEN
          /\ last' = [call EXCEPT !.outcome = "StoreError"]
          /\ todos' = todos
        ELSE IF Len(currentTodo) = 0 THEN
          /\ last' = [call EXCEPT !.outcome = "NotFound"]
          /\ todos' = todos
        ELSE IF fault = 3 THEN
          /\ last' = [call EXCEPT !.outcome = "StoreError"]
          /\ todos' = todos
        ELSE
          LET updated == updateCompleted(todos, id,
                                         newCompletedStatus(currentTodo[1]))
              updatedTodo == selectTodo(updated, id)
          IN /\ todos' = updated
             /\ last' = [call EXCEPT
                           !.outcome = "returned",
                           !.rows = todosView(updatedTodo)]
  /\ UNCHANGED <<deployment, passengers, csvSource, csvContent, parsed,
               requests, client>>

(* fault 1: getDb, 2: the select, 3: the delete *)
deleteTodo(id, fault) ==
  /\ Registered("DELETE_TODO")
  /\ LET call == [Call("deleteTodo", fault) EXCEPT !.id = id]
         existingTodo == selectTodo(todos, id)
     IN IF fault \in {1, 2} THEN
          /\ last' = [call EXCEPT !.outcome = "StoreError"]
          /\ todos' = todos
        ELSE IF Len(existingTodo) = 0 THEN
          /\ last' = [call EXCEPT !.outcome = "NotFound"]
          /\ todos' = todos
        ELSE IF fault = 3 THEN
          /\ last' = [call EXCEPT !.outcome = "StoreError"]
          /\ todos' = todos
        ELSE
          /\ todos' = deleteTodoRow(todos, id)
          /\ last' = [call EXCEPT !.outcome = "returned", !.success = TRUE]
  /\ UNCHANGED <<deployment, passengers, csvSource, csvContent, parsed,
               requests, client>>

-----------------------------------------------------------------------------
(* Passenger tools: the test data *)

RECURSIVE joinWith(_, _)
joinWith(parts, sep) ==
  IF parts = <<>> THEN <<>>
  ELSE IF Len(parts) = 1 THEN Head(parts)
  ELSE Head(parts) \o <<sep>> \o joinWith(Tail(parts), sep)

(* csvData of POPULATE_TEST_DATA in tools.ts: the header and the first two of
   its ten rows *)
csvData ==
  joinWith(<<
    joinWith(<<
      <<"firstName">>, <<"lastName">>, <<"email">>, <<"phone">>,
      <<"passportNumber">>, <<"nationality">>, <<"dateOfBirth">>,
      <<"seatNumber">>, <<"flightNumber">>, <<"departureCity">>,
      <<"arrivalCity">>, <<"departureDate">>, <<"ticketClass">>, <<"price">>,
      <<"status">> >>, ","),
    joinWith(<<
      <<"João">>, <<"Silva">>, <<"joao.silva@email.com">>,
      <<"+55", " ", "11", " ", "99999-1111">>, <<"BR123456">>,
      <<"brasileiro">>, <<"1985-03-15">>, <<"12A">>, <<"LA1234">>,
      <<"São", " ", "Paulo">>, <<"Los", " ", "Angeles">>, <<"2024-01-15">>,
      <<"economy">>, <<"2", "5", "0", "0", ".", "0", "0">>,
      <<"confirmed">> >>, ","),
    joinWith(<<
      <<"Maria">>, <<"Santos">>, <<"maria.santos@email.com">>,
      <<"+55", " ", "21", " ", "88888-2222">>, <<"BR789012">>,
      <<"brasileira">>, <<"1990-07-22">>, <<"15B">>, <<"LA1234">>,
      <<"São", " ", "Paulo">>, <<"Los", " ", "Angeles">>, <<"2024-01-15">>,
      <<"business">>, <<"4", "5", "0", "0", ".", "0", "0">>,
      <<"confirmed">> >>, ",") >>, "\n")

(* getCSVContent of schema.ts: the header and the first two of its rows; the
   first row starts with the two spaces the source has there *)
getCSVContent ==
  joinWith(<<
    joinWith(<<
      <<"firstName">>, <<"lastName">>, <<"email">>, <<"nationality">>,
      <<"dateOfBirth">>, <<"departureCity">>, <<"arrivalCity">>,
      <<"departureDate">>, <<"distance">>, <<"flightCost">> >>, ","),
    joinWith(<<
      <<" ", " ", "João">>, <<"Silva">>, <<"joao.silva@email.com">>,
      <<"Brazilian">>, <<"1985-03-15">>, <<"São", " ", "Paulo">>,
      <<"Rio", " ", "de", " ", "Janeiro">>, <<"2024-01-15">>, <<"430">>,
      <<"1", "2", "0", "0", ".", "0", "0">> >>, ","),
    joinWith(<<
      <<"Maria">>, <<"Santos">>, <<"maria.santos@email.com">>,
      <<"Brazilian">>, <<"1990-07-22">>, <<"Brasília">>, <<"Salvador">>,
      <<"2024-01-16">>, <<"1200">>,
      <<"2", "8", "0", "0", ".", "0", "0">> >>, ",") >>, "\n")

-----------------------------------------------------------------------------
(* Passenger tools: insertion *)

(* String(n) for n >= 0, as a text of digit characters *)
RECURSIVE digits(_)
digits(n) ==
  LET d == <<"0", "1", "2", "3", "4", "5", "6", "7", "8", "9">>
  IN IF n < 10 THEN <<d[n + 1]>> ELSE digits(n \div 10) \o <<d[(n % 10) + 1]>>

(* s.padStart(len, ch) *)
RECURSIVE padStart(_, _, _)
padStart(s, len, ch) == IF Len(s) >= len THEN s ELSE padStart(<<ch>> \o s, len, ch)

(* a passengerData whose flight number is not padded *)
insertPassengerDataUnpadded(passenger, importedCount) ==
  [firstName |-> passenger.firstName,
   lastName |-> passenger.lastName,
   email |-> passenger.email,
   nationality |-> passenger.nationality,
   dateOfBirth |-> passenger.dateOfBirth,
   flightNumber |-> <<"B", "R">> \o digits(importedCount + 1),
   departureCity |-> passenger.departureCity,
   arrivalCity |-> passenger.arrivalCity,
   departureDate |-> passenger.departureDate,
   price |-> passenger.flightCost,
   distance |-> passenger.distance]

(* the passengerData object insertPassengers builds for the row it inserts
   when importedCount rows are in *)
insertPassengerData(passenger, importedCount) ==
  [firstName |-> passenger.firstName,
   lastName |-> passenger.lastName,
   email |-> passenger.email,
   nationality |-> passenger.nationality,
   dateOfBirth |-> passenger.dateOfBirth,
   flightNumber |-> <<"B", "R">> \o padStart(digits(importedCount + 1), 4, "0"),
   departureCity |-> passenger.departureCity,
   arrivalCity |-> passenger.arrivalCity,
   departureDate |-> passenger.departureDate,
   price |-> passenger.flightCost,
   distance |-> passenger.distance]

(* insertPassengers(db, passengers), its first insert being store call
   firstCall of the handler *)
insertPassengers(table, parsedRows, firstCall, fault) ==
  insertEach(table,
             [k \in 1..Len(parsedRows) |-> insertPassengerData(parsedRows[k], k - 1)],
             0, firstCall, fault)

(* a guard that never finds a row *)
hasExistingDataNever(table) == FALSE

(* select().from(passengersTable).limit(1), length > 0 *)
hasExistingData(table) == Len(SubSeq(table, 1, IF Len(table) < 1 THEN Len(table) ELSE 1)) > 0

(* a guard that asks for more than one row *)
existingPassengersFoundSeveral(table) == Len(table) > 1

(* the same check, inline in tools.ts *)
existingPassengersFound(table) == Len(SubSeq(table, 1, IF Len(table) < 1 THEN Len(table) ELSE 1)) > 0

-----------------------------------------------------------------------------
(* Passenger tools: import, populate, clear *)

(* the catch branch of GET_PASSENGERS and GET_PASSENGER_STATS:
   throw new Error(`<message>: ${error.message}`) *)
wrappedFailure(call, message) ==
  [call EXCEPT !.outcome = "WrappedError", !.message = message]

(* an import without its try and catch *)
importFailureThrown(call) == [call EXCEPT !.outcome = "StoreError"]

(* the result in the catch branch of the import and populate tools *)
importFailure(call) ==
  [call EXCEPT !.outcome = "returned", !.success = FALSE, !.count = 0,
               !.message = "Error"]

importSuccess(call, importedCount) ==
  [call EXCEPT !.outcome = "returned", !.success = TRUE, !.count = importedCount,
               !.message = "Successfully"]

(* the result of the populate tools when the table holds a row *)
alreadyPopulated(call) ==
  [call EXCEPT !.outcome = "returned", !.success = TRUE, !.count = 0,
               !.message = "Database already contains passenger data"]

(* IMPORT_PASSENGERS_FROM_CSV; fault 1: getDb, fault k + 1: the k-th insert *)
importPassengersFromCSV(csv, fault) ==
  /\ Registered("IMPORT_PASSENGERS_FROM_CSV")
  /\ Len(passengers) + Len(importParse(csv)) <= MaxPassengers
  /\ LET call == [Call("importPassengersFromCSV", fault) EXCEPT !.csv = csv]
     IN IF fault = 1 THEN
          /\ passengers' = passengers
          /\ last' = importFailure(call)
        ELSE
          LET run == insertEach(passengers, importParse(csv), 0, 2, fault)
          IN /\ passengers' = run.table
             /\ last' = IF run.failed THEN importFailure(call)
                        ELSE importSuccess(call, run.count)
  /\ UNCHANGED <<deployment, todos, csvSource, csvContent, parsed,
               requests, client>>

(* POPULATE_TEST_DATA of tools.ts; fault 1: getDb, 2: the select of the guard,
   fault k + 2: the k-th insert *)
populateTestDataTools(fault) ==
  /\ Registered("POPULATE_TEST_DATA")
  /\ deployment = "tools.ts"
  /\ LET call == [Call("populateTestData", fault) EXCEPT
                   !.again = populatedJustBefore]
     IN IF fault \in {1, 2} THEN
          /\ passengers' = passengers
          /\ last' = importFailure(call)
        ELSE IF existingPassengersFound(passengers) THEN
          /\ passengers' = passengers
          /\ last' = alreadyPopulated(call)
        ELSE
          LET run == insertEach(passengers, importParse(csvData), 0, 3, fault)
          IN /\ passengers' = run.table
             /\ last' = IF run.failed THEN importFailure(call)
                        ELSE importSuccess(call, run.count)
  /\ UNCHANGED <<deployment, todos, csvSource, csvContent, parsed,
               requests, client>>

(* POPULATE_TEST_DATA of schema.ts; fault 1: getDb, 2: hasExistingData,
   fault k + 2: the k-th insert of insertPassengers *)
populateTestDataSchema(fault) ==
  /\ Registered("POPULATE_TEST_DATA")
  /\ deployment = "schema.ts"
  /\ LET call == [Call("populateTestData", fault) EXCEPT
                   !.again = populatedJustBefore]
     IN IF fault \in {1, 2} THEN
          /\ passengers' = passengers
          /\ last' = importFailure(call)
        ELSE IF hasExistingData(passengers) THEN
          /\ passengers' = passengers
          /\ last' = alreadyPopulated(call)
        ELSE
          LET run == insertPassengers(passengers,
                                      parseCSVContent(getCSVContent), 3, fault)
          IN /\ passengers' = run.table
             /\ last' = IF run.failed THEN importFailure(call)
                        ELSE importSuccess(call, run.count)
  /\ UNCHANGED <<deployment, todos, csvSource, csvContent, parsed,
               requests, client>>

(* a count that is one too many *)
deletedCountOfOneMore(existingPassengers) == Len(existingPassengers) + 1

(* existingPassengers.length *)
deletedCountOf(existingPassengers) == Len(existingPassengers)

(* a delete that spares the first row *)
deleteAllButFirst(table) == IF table = <<>> THEN <<>> ELSE <<Head(table)>>

(* db.delete(passengersTable) *)
deleteAll(table) == <<>>

clearResult(call, success, deletedCount, message) ==
  [call EXCEPT !.outcome = "returned", !.success = success,
               !.count = deletedCount, !.message = message]

(* CLEAR_DATABASE (schema.ts); fault 1: getDb, 2: the select, 3: the delete *)
clearDatabase(fault) ==
  /\ Registered("CLEAR_DATABASE")
  /\ LET call == Call("clearDatabase", fault)
         deletedCount == deletedCountOf(passengers)
     IN IF fault \in {1, 2} THEN
          /\ passengers' = passengers
          /\ last' = clearResult(call, FALSE, 0, "Error clearing database")
        ELSE IF deletedCount = 0 THEN
          /\ passengers' = passengers
          /\ last' = clearResult(call, TRUE, 0, "Database is already empty")
        ELSE IF fault = 3 THEN
          /\ passengers' = passengers
          /\ last' = clearResult(call, FALSE, 0, "Error clearing database")
        ELSE
          /\ passengers' = deleteAll(passengers)
          /\ last' = clearResult(call, TRUE, deletedCount, "Successfully cleared database")
  /\ UNCHANGED <<deployment, todos, csvSource, csvContent, parsed,
               requests, client>>

-----------------------------------------------------------------------------
(* Passenger tools: queries *)

(* a condition that takes a limit of 0 for a limit *)
hasKey(context, f) ==
  /\ f \in DOMAIN context
  /\ (f = "limit" \/ Truthy(context[f]))

(* context.f, read as a condition: the key is there and its value is truthy *)
has(context, f) ==
  /\ f \in DOMAIN context
  /\ IF f = "limit" THEN context[f] # 0 ELSE Truthy(context[f])

(* passengers.filter(p => p[f] === context[f]) *)
RECURSIVE filterEq(_, _, _)
filterEq(rows, f, v) ==
  IF rows = <<>> THEN <<>>
  ELSE IF Head(rows)[f] = v THEN <<Head(rows)>> \o filterEq(Tail(rows), f, v)
  ELSE filterEq(Tail(rows), f, v)

applyFilter(rows, context, f) ==
  IF has(context, f) THEN filterEq(rows, f, context[f]) ELSE rows

(* a truncation that keeps one row more than the limit *)
applyLimitOneMore(rows, context) ==
  IF has(context, "limit") THEN slice0(rows, context["limit"] + 1) ELSE rows

(* if (context.limit) passengers = passengers.slice(0, context.limit) *)
applyLimit(rows, context) ==
  IF has(context, "limit") THEN slice0(rows, context["limit"]) ELSE rows

(* the filtering and truncation of GET_PASSENGERS in tools.ts *)
selectPassengersTools(table, context) ==
  applyLimit(
    applyFilter(
      applyFilter(
        applyFilter(
          applyFilter(
            applyFilter(table, context, "flightNumber"),
            context, "departureCity"),
          context, "arrivalCity"),
        context, "ticketClass"),
      context, "status"),
    context)

(* the same in schema.ts, which has no ticketClass filter *)
selectPassengersSchema(table, context) ==
  applyLimit(
    applyFilter(
      applyFilter(
        applyFilter(
          applyFilter(table, context, "flightNumber"),
          context, "departureCity"),
        context, "arrivalCity"),
      context, "status"),
    context)

(* x || '' *)
orEmpty(v) == IF Truthy(v) THEN v ELSE EMPTY

(* cleanedPassengers of schema.ts; the table has no distance column, so
   passenger.distance is undefined *)
cleaned(passenger) ==
  [id |-> passenger.id,
   firstName |-> orEmpty(passenger.firstName),
   lastName |-> orEmpty(passenger.lastName),
   email |-> orEmpty(passenger.email),
   nationality |-> orEmpty(passenger.nationality),
   dateOfBirth |-> orEmpty(passenger.dateOfBirth),
   departureCity |-> orEmpty(passenger.departureCity),
   arrivalCity |-> orEmpty(passenger.arrivalCity),
   departureDate |-> orEmpty(passenger.departureDate),
   distance |-> EMPTY,
   flightCost |-> orEmpty(passenger.price)]

(* GET_PASSENGERS of tools.ts; fault 1: getDb, 2: the select *)
getPassengersTools(context, fault) ==
  /\ Registered("GET_PASSENGERS")
  /\ deployment = "tools.ts"
  /\ LET call == [Call("getPassengers", fault) EXCEPT !.context = context]
         rows == selectPassengersTools(passengers, context)
     IN last' = IF fault # 0
                THEN wrappedFailure(call, "Error fetching passengers")
                ELSE [call EXCEPT !.outcome = "returned", !.rows = rows,
                                  !.count = Len(rows)]
  /\ UNCHANGED <<deployment, todos, passengers, csvSource, csvContent, parsed,
               requests, client>>

(* GET_PASSENGERS of schema.ts *)
getPassengersSchema(context, fault) ==
  /\ Registered("GET_PASSENGERS")
  /\ deployment = "schema.ts"
  /\ "ticketClass" \notin DOMAIN context
  /\ LET call == [Call("getPassengers", fault) EXCEPT !.context = context]
         rows == selectPassengersSchema(passengers, context)
         cleanedPassengers == [k \in 1..Len(rows) |-> cleaned(rows[k])]
     IN last' = IF fault # 0
                THEN wrappedFailure(call, "Error fetching passengers")
                ELSE [call EXCEPT !.outcome = "returned",
                                  !.rows = cleanedPassengers,
                                  !.count = Len(cleanedPassengers)]
  /\ UNCHANGED <<deployment, todos, passengers, csvSource, csvContent, parsed,
               requests, client>>

-----------------------------------------------------------------------------
(* Passenger tools: statistics.  Prices are counted in hundredths; the price
   texts of the model carry at most two decimals. *)

NaN == [nan |-> TRUE, cents |-> 0]

isDigit(c) == c \in {"0", "1", "2", "3", "4", "5", "6", "7", "8", "9"}

digitValue(c) == CHOOSE n \in 0..9 : digits(n) = <<c>>

RECURSIVE takeDigits(_)
takeDigits(s) ==
  IF s # <<>> /\ isDigit(Head(s)) THEN <<Head(s)>> \o takeDigits(Tail(s)) ELSE <<>>

RECURSIVE numberOf(_)
numberOf(ds) ==
  IF ds = <<>> THEN 0
  ELSE 10 * numberOf(SubSeq(ds, 1, Len(ds) - 1)) + digitValue(ds[Len(ds)])

(* parseFloat(s): leading whitespace, a sign, digits, a point and digits; NaN
   when no digit is found; what follows the number is ignored *)
parseFloat(s) ==
  LET t == trimStart(s)
      signed == t # <<>> /\ Head(t) \in {"-", "+"}
      negative == t # <<>> /\ Head(t) = "-"
      u == IF signed THEN Tail(t) ELSE t
      int == takeDigits(u)
      rest == SubSeq(u, Len(int) + 1, Len(u))
      frac == IF rest # <<>> /\ Head(rest) = "." THEN takeDigits(Tail(rest)) ELSE <<>>
      frac2 == SubSeq(frac \o <<"0", "0">>, 1, 2)
      magnitude == 100 * numberOf(int) + numberOf(frac2)
  IN IF int = <<>> /\ frac = <<>> THEN NaN
     ELSE [nan |-> FALSE, cents |-> IF negative THEN 0 - magnitude ELSE magnitude]

(* a key without the 'unknown' of a missing field *)
groupKeyRaw(passenger, f) == passenger[f]

(* the key a row is counted under: the field, or 'unknown' *)
groupKey(passenger, f) == IF Truthy(passenger[f]) THEN passenger[f] ELSE <<"unknown">>

(* the Record<string, number> the loop builds for field f *)
countBy(rows, f) ==
  LET keys == {groupKey(rows[k], f) : k \in 1..Len(rows)}
  IN [x \in keys |-> Cardinality({k \in 1..Len(rows) : groupKey(rows[k], f) = x})]

(* totals that count every row with a price, parseable or not *)
RECURSIVE priceTotalsCountsAll(_)
priceTotalsCountsAll(rows) ==
  IF rows = <<>> THEN [totalPrice |-> 0, validPrices |-> 0]
  ELSE LET t == priceTotalsCountsAll(SubSeq(rows, 1, Len(rows) - 1))
           passenger == rows[Len(rows)]
           price == parseFloat(passenger.price)
       IN IF Truthy(passenger.price)
          THEN [totalPrice |-> t.totalPrice + (IF price.nan THEN 0 ELSE price.cents),
                validPrices |-> t.validPrices + 1]
          ELSE t

(* totalPrice and validPrices after the loop *)
RECURSIVE priceTotals(_)
priceTotals(rows) ==
  IF rows = <<>> THEN [totalPrice |-> 0, validPrices |-> 0]
  ELSE LET t == priceTotals(SubSeq(rows, 1, Len(rows) - 1))
           passenger == rows[Len(rows)]
           price == parseFloat(passenger.price)
       IN IF Truthy(passenger.price) /\ ~price.nan
          THEN [totalPrice |-> t.totalPrice + price.cents,
                validPrices |-> t.validPrices + 1]
          ELSE t

(* Math.round(averagePrice * 100) / 100, in hundredths *)
roundedAverage(totalPrice, validPrices) ==
  IF validPrices > 0
  THEN (2 * totalPrice + validPrices) \div (2 * validPrices)
  ELSE 0

(* an early return that counts a group of unknowns *)
emptyStatsUnknown ==
  [totalPassengers |-> 0, byTicketClass |-> <<>>,
   byStatus |-> [k \in {"unknown"} |-> 0],
   byFlight |-> <<>>, averagePrice |-> 0]

(* the early return for an empty table *)
emptyStats ==
  [totalPassengers |-> 0, byTicketClass |-> <<>>, byStatus |-> <<>>,
   byFlight |-> <<>>, averagePrice |-> 0]

passengerStats(allPassengers) ==
  IF Len(allPassengers) = 0 THEN emptyStats
  ELSE LET t == priceTotals(allPassengers)
       IN [totalPassengers |-> Len(allPassengers),
           byTicketClass |-> countBy(allPassengers, "ticketClass"),
           byStatus |-> countBy(allPassengers, "status"),
           byFlight |-> countBy(allPassengers, "flightNumber"),
           averagePrice |-> roundedAverage(t.totalPrice, t.validPrices)]

(* GET_PASSENGER_STATS (tools.ts); fault 1: getDb, 2: the select *)
getPassengerStats(fault) ==
  /\ Registered("GET_PASSENGER_STATS")
  /\ LET call == Call("getPassengerStats", fault)
     IN last' = IF fault # 0
                THEN wrappedFailure(call, "Error calculating passenger stats")
                ELSE [call EXCEPT !.outcome = "returned",
                                  !.stats = passengerStats(passengers)]
  /\ UNCHANGED <<deployment, todos, passengers, csvSource, csvContent, parsed,
               requests, client>>

-----------------------------------------------------------------------------
(* The inputs of the calls *)

HeaderLine == <<"a", ",", "b">>

(* The lines of the CSV texts, each a list of values *)

(* fifteen values, one per column of the import *)
ValuesFull ==
  << <<"Ana">>, <<"Costa">>, <<"ana@x">>, <<"555">>, <<"P1">>, <<"BR">>,
     <<"1990">>, <<"1A">>, <<"LA1">>, <<"SP">>, <<"LA">>, <<"2024">>,
     <<"economy">>, <<"1", "0">>, <<"pending">> >>

(* fourteen values: no status, an empty lastName, an empty phone, a price
   that is no number *)
ValuesNoStatus ==
  << <<"Bia">>, <<>>, <<"bia@x">>, <<>>, <<"P2">>, <<"BR">>,
     <<"1991">>, <<"2B">>, <<"LA1">>, <<"SP">>, <<"RJ">>, <<"2024">>,
     <<"business">>, <<"n/a">> >>

(* two values *)
ValuesShort == << <<"x">>, <<"y">> >>

(* nine values, most of them empty *)
ValuesGaps ==
  << <<>>, <<>>, <<"e@x">>, <<>>, <<>>, <<>>, <<>>, <<>>, <<"LA2">> >>

(* a line with nothing on it, and one with two spaces on it *)
ValuesBlank == << <<>> >>

ValuesSpaces == << <<" ", " ">> >>

(* the last value ends in a space *)
ValuesTrailing == << <<"x">>, <<"y", " ">> >>

(* the text of a source: with or without a blank line before the header and
   a newline after the last line *)
csvText(source) ==
  joinWith((IF source.lead THEN << <<>> >> ELSE <<>>)
             \o <<HeaderLine>>
             \o [k \in 1..Len(source.lines) |-> joinWith(source.lines[k], ",")]
             \o (IF source.trail THEN << <<>> >> ELSE <<>>),
           "\n")

NoSource == [lead |-> FALSE, trail |-> FALSE, lines |-> <<>>]

(* the CSV texts given to IMPORT_PASSENGERS_FROM_CSV: no row; one full row;
   after a blank first line, two rows with a blank line between them *)
ImportSources ==
  { NoSource,
    [lead |-> FALSE, trail |-> TRUE, lines |-> <<ValuesFull>>],
    [lead |-> TRUE, trail |-> FALSE,
     lines |-> <<ValuesNoStatus, ValuesSpaces, ValuesShort>>] }

ImportTexts == {csvText(source) : source \in ImportSources}

(* the text among them that has two rows *)
ImportTwoRows ==
  csvText([lead |-> TRUE, trail |-> FALSE,
           lines |-> <<ValuesNoStatus, ValuesSpaces, ValuesShort>>])

(* the CSV texts given to the parsers alone: up to MaxCsvLines lines after
   the header *)
CsvLines ==
  {ValuesFull, ValuesShort, ValuesGaps, ValuesBlank, ValuesSpaces, ValuesTrailing}

CsvSources ==
  [lead : BOOLEAN, trail : BOOLEAN,
   lines : UNION {[1..n -> CsvLines] : n \in 0..MaxCsvLines}]

FilterNames ==
  {"flightNumber", "departureCity", "arrivalCity", "ticketClass", "status"}

(* a value of filter f that some row of the deployment's data carries *)
filterValue(dep, f) ==
  IF dep = "tools.ts"
  THEN CASE f = "flightNumber" -> <<"LA1">>
         [] f = "departureCity" -> <<"SP">>
         [] f = "arrivalCity" -> <<"LA">>
         [] f = "ticketClass" -> <<"economy">>
         [] f = "status" -> CONFIRMED
  ELSE CASE f = "flightNumber" -> <<"B", "R", "0", "0", "0", "1">>
         [] f = "departureCity" -> <<"São", " ", "Paulo">>
         [] f = "arrivalCity" -> <<"Salvador">>
         [] f = "ticketClass" -> <<"economy">>
         [] f = "status" -> CONFIRMED

LimitValues == {-1, 0, 1, 2}

withLimit(context, n) ==
  [f \in DOMAIN context \cup {"limit"} |-> IF f = "limit" THEN n ELSE context[f]]

(* the validated inputs of GET_PASSENGERS: every set of filters with a value
   and no limit; each single filter with the empty string; no filter, and the
   status filter, with each limit *)
Contexts(dep) ==
  {[f \in S |-> filterValue(dep, f)] : S \in SUBSET FilterNames}
    \cup {[f \in {g} |-> EMPTY] : g \in FilterNames}
    \cup {withLimit(<<>>, n) : n \in LimitValues}
    \cup {withLimit([f \in {"status"} |-> CONFIRMED], n) : n \in LimitValues}

(* a store fault is tried with the empty input alone: the handler does not
   look at its input before the store answers *)
GetPassengersInputs(dep) ==
  {[context |-> c, fault |-> 0] : c \in Contexts(dep)}
    \cup {[context |-> <<>>, fault |-> n] : n \in 1..2}

ToolsInputs == GetPassengersInputs("tools.ts")

SchemaInputs == GetPassengersInputs("schema.ts")

NoParse == [by |-> "none", rows |-> <<>>]

(* the client before its first query: no data under the key todos, no
   response handled *)
NoClient == [loaded |-> FALSE, todos |-> <<>>, handled |-> NoCall]

-----------------------------------------------------------------------------
(* The server: every call runs to completion before the next one starts *)

Init ==
  /\ deployment \in {"tools.ts", "schema.ts"}
  /\ todos = <<>>
  /\ passengers = <<>>
  /\ last = NoCall
  /\ csvSource = NoSource
  /\ csvContent = <<>>
  /\ parsed = NoParse
  /\ requests = <<>>
  /\ client = NoClient

NextTodos ==
  \/ \E fault \in 0..2 : listTodos(fault)
  \/ \E generated \in GeneratedTitles, aiFails \in BOOLEAN, fault \in 0..2 :
       generateTodo(generated, aiFails, fault)
  \/ \E id \in TodoIds, fault \in 0..3 : toggleTodo(id, fault)
  \/ \E id \in TodoIds, fault \in 0..3 : deleteTodo(id, fault)

NextPassengers ==
  \/ \E csv \in ImportTexts, fault \in 0..3 : importPassengersFromCSV(csv, fault)
  \/ \E fault \in 0..4 : populateTestDataTools(fault)
  \/ \E fault \in 0..4 : populateTestDataSchema(fault)
  \/ \E fault \in 0..3 : clearDatabase(fault)
  \/ \E in \in ToolsInputs :
       getPassengersTools(in.context, in.fault)
  \/ \E in \in SchemaInputs :
       getPassengersSchema(in.context, in.fault)
  \/ \E fault \in 0..2 : getPassengerStats(fault)

Next == NextTodos \/ NextPassengers

Spec == Init /\ [][Next]_vars

SpecTodos == Init /\ [][NextTodos]_vars

SpecPassengers == Init /\ [][NextPassengers]_vars

(* The calls that write to the store, the store answering each of them but
   for the second insert of an import or populate of two rows *)
NextStore ==
  \/ listTodos(0)
  \/ generateTodo("Buy milk", FALSE, 0)
  \/ \E id \in TodoIds : toggleTodo(id, 0)
  \/ \E id \in TodoIds : deleteTodo(id, 0)
  \/ \E fault \in {0, 3} : importPassengersFromCSV(ImportTwoRows, fault)
  \/ \E fault \in {0, 4} : populateTestDataTools(fault)
  \/ \E fault \in {0, 4} : populateTestDataSchema(fault)
  \/ clearDatabase(0)

SpecStore == Init /\ [][NextStore]_vars

(* The CSV parsers applied to a text *)

InitCsv ==
  /\ deployment \in {"tools.ts", "schema.ts"}
  /\ todos = <<>>
  /\ passengers = <<>>
  /\ last = NoCall
  /\ csvSource \in CsvSources
  /\ csvContent = csvText(csvSource)
  /\ parsed = NoParse
  /\ requests = <<>>
  /\ client = NoClient

runImportParse ==
  /\ deployment = "tools.ts"
  /\ parsed.by = "none"
  /\ parsed' = [by |-> "importParse", rows |-> importParse(csvContent)]
  /\ UNCHANGED <<deployment, todos, passengers, last, csvSource, csvContent,
               requests, client>>

runParseCSVContent ==
  /\ deployment = "schema.ts"
  /\ parsed.by = "none"
  /\ parsed' = [by |-> "parseCSVContent", rows |-> parseCSVContent(csvContent)]
  /\ UNCHANGED <<deployment, todos, passengers, last, csvSource, csvContent,
               requests, client>>

NextCsv == runImportParse \/ runParseCSVContent

SpecCsv == InitCsv /\ [][NextCsv]_vars

-----------------------------------------------------------------------------
(* Properties of the todo tools, checked under SpecTodos *)

(* the completed value of the todo id in table *)
completedOf(table, id) ==
  (CHOOSE t \in {table[k] : k \in 1..Len(table)} : t.id = id).completed

(* C1: for a todo in the store, two successive TOGGLE_TODO calls of its id
   that both return leave its completed value as it was before the first
   call.  The state before the step is the state the first call left (last is
   that call), the step is the second call. *)
C1_ToggleTwiceRestores ==
  [][ ( /\ last.op = "toggleTodo" /\ last.outcome = "returned"
        /\ last'.op = "toggleTodo" /\ last'.outcome = "returned"
        /\ last'.id = last.id
        /\ last'.again
        /\ last'.preTodos = todos )
      => /\ last.id \in Ids(last.preTodos)
         /\ last.id \in Ids(todos')
         /\ completedOf(todos', last.id) = completedOf(last.preTodos, last.id)
    ]_vars

(* the second of two successive toggles of a todo has returned, in a store
   that holds another todo as well *)
C1_Witness ==
  /\ last.op = "toggleTodo" /\ last.outcome = "returned" /\ last.again
  /\ Len(todos) = 2
  /\ last.rows[1].completed = FALSE

(* C2: DELETE_TODO of an id that is not in the todos table never returns
   success and leaves the table as it was; whenever the store answers the
   lookup the call fails with NotFound (a store that raises on getDb or on
   the lookup makes it fail with the store's error instead). *)
C2_DeleteAbsentFails ==
  (last.op = "deleteTodo" /\ last.id \notin Ids(last.preTodos))
    => /\ last.outcome # "returned"
       /\ ~last.success
       /\ todos = last.preTodos
       /\ (last.fault \notin {1, 2} => last.outcome = "NotFound")

(* a delete of an absent id, on a table that holds other todos, has failed
   with NotFound *)
C2_Witness ==
  /\ last.op = "deleteTodo" /\ last.outcome = "NotFound"
  /\ last.preTodos # <<>>
  /\ last.id \notin Ids(last.preTodos)
  /\ todos = last.preTodos

-----------------------------------------------------------------------------
(* Properties of the passenger tools, checked under SpecPassengers *)

(* the row of table with the id of the returned row r: r itself in tools.ts,
   the row r was cleaned from in schema.ts *)
tableRowsOf(table, r) ==
  {p \in {table[k] : k \in 1..Len(table)} :
     /\ p.id = r.id
     /\ (deployment = "tools.ts" => r = p)}

getPassengersReturned ==
  last.op = "getPassengers" /\ last.outcome = "returned"

(* the returned rows are rows of the table that meet the filters in F *)
returnedRowsMeet(F) ==
  \A k \in 1..Len(last.rows) :
    \E p \in tableRowsOf(last.prePassengers, last.rows[k]) :
      \A f \in F : p[f] = last.context[f]

suppliedFilters == DOMAIN last.context \ {"limit"}

(* C3 as stated: with every supplied filter and every supplied limit N (a
   number of rows, N >= 0), GET_PASSENGERS returns at most N rows, each a row
   of the table that meets every supplied filter. *)
C3_AsStated ==
  getPassengersReturned
    => /\ (("limit" \in DOMAIN last.context /\ last.context["limit"] >= 0)
             => Len(last.rows) <= last.context["limit"])
       /\ returnedRowsMeet(suppliedFilters)

(* C3 amended: with every supplied limit N >= 1 GET_PASSENGERS returns at
   most N rows; every returned row is a row of the table (in schema.ts its
   cleaned projection) and meets every supplied filter whose value is not the
   empty string. *)
C3_LimitAndFilters ==
  getPassengersReturned
    => /\ (("limit" \in DOMAIN last.context /\ last.context["limit"] >= 1)
             => Len(last.rows) <= last.context["limit"])
       /\ returnedRowsMeet({f \in suppliedFilters : last.context[f] # EMPTY})

(* a call with the status filter and limit 1 has returned one of two rows of
   the table that have that status *)
C3_Witness ==
  /\ getPassengersReturned
  /\ DOMAIN last.context = {"status", "limit"}
  /\ last.context["limit"] = 1
  /\ Len(last.rows) = 1
  /\ Cardinality({k \in 1..Len(last.prePassengers) :
                    last.prePassengers[k].status = last.context["status"]}) >= 2
  /\ \E k \in 1..Len(last.prePassengers) :
       last.prePassengers[k].status # last.context["status"]

(* C4: POPULATE_TEST_DATA right after a POPULATE_TEST_DATA that succeeded
   inserts no row and reports importedCount 0, so the row count stays what the
   first call left; it reports success whenever the store answers the lookup
   of its guard. *)
C4_PopulateTwice ==
  (last.op = "populateTestData" /\ last.again)
    => /\ passengers = last.prePassengers
       /\ Len(passengers) = Len(last.prePassengers)
       /\ last.outcome = "returned"
       /\ last.count = 0
       /\ (last.fault \notin {1, 2} => last.success)

(* the second of two successive populate calls has returned success, the
   table still what the first call inserted *)
C4_Witness ==
  /\ last.op = "populateTestData" /\ last.again
  /\ last.success /\ last.count = 0
  /\ Len(passengers) = 2
  /\ Ids(passengers) = {1, 2}

(* C5: POPULATE_TEST_DATA on a table that holds a row leaves the table as it
   is and reports importedCount 0; whenever the store answers the lookup of
   the guard it returns success with the message that the database already
   contains passenger data. *)
C5_PopulateGuard ==
  (last.op = "populateTestData" /\ last.prePassengers # <<>>)
    => /\ passengers = last.prePassengers
       /\ last.outcome = "returned"
       /\ last.count = 0
       /\ (last.fault \notin {1, 2}
             => /\ last.success
                /\ last.message = "Database already contains passenger data")

(* a populate call on a table that holds a single imported row has returned *)
C5_Witness ==
  /\ last.op = "populateTestData" /\ ~last.again
  /\ Len(last.prePassengers) = 1
  /\ last.fault = 0
  /\ last.success /\ last.count = 0
  /\ passengers = last.prePassengers

(* C6: CLEAR_DATABASE on an empty table returns, never raises, reports
   deletedCount 0 and leaves the table empty; it reports success whenever the
   store answers the lookup of the rows. *)
C6_ClearEmpty ==
  (last.op = "clearDatabase" /\ last.prePassengers = <<>>)
    => /\ last.outcome = "returned"
       /\ last.count = 0
       /\ passengers = <<>>
       /\ (last.fault \notin {1, 2} => last.success)

(* a clear of an empty table has returned success *)
C6_Witness ==
  /\ last.op = "clearDatabase" /\ last.prePassengers = <<>>
  /\ last.outcome = "returned" /\ last.success /\ last.count = 0
  /\ passengers = <<>>

(* the store raises during the call: on getDb, on the select, or on the
   delete when there is a row to delete *)
clearHitsStoreError ==
  \/ last.fault \in {1, 2}
  \/ last.fault = 3 /\ last.prePassengers # <<>>

(* C7: CLEAR_DATABASE always returns; when it reports success the table is
   empty and deletedCount is the number of rows there were before the call;
   when the store raises it reports success false, deletedCount 0 and a
   message. *)
C7_ClearNeverThrows ==
  last.op = "clearDatabase"
    => /\ last.outcome = "returned"
       /\ (last.success
             => /\ passengers = <<>>
                /\ last.count = Len(last.prePassengers))
       /\ (clearHitsStoreError
             => /\ ~last.success
                /\ last.count = 0
                /\ last.message = "Error clearing database")
       /\ (~clearHitsStoreError => last.success)

(* a clear of a table of two rows or more has returned success *)
C7_Witness ==
  /\ last.op = "clearDatabase" /\ last.success
  /\ Len(last.prePassengers) >= 2
  /\ last.count = Len(last.prePassengers)
  /\ passengers = <<>>

(* C8: GET_PASSENGER_STATS on an empty table returns totalPassengers 0, empty
   byTicketClass, byStatus and byFlight, and averagePrice 0. *)
C8_StatsOfEmptyTable ==
  (last.op = "getPassengerStats" /\ last.prePassengers = <<>>
     /\ last.outcome = "returned")
    => /\ last.stats.totalPassengers = 0
       /\ DOMAIN last.stats.byTicketClass = {}
       /\ DOMAIN last.stats.byStatus = {}
       /\ DOMAIN last.stats.byFlight = {}
       /\ last.stats.averagePrice = 0

(* the statistics of an empty table have been returned *)
C8_Witness ==
  /\ last.op = "getPassengerStats" /\ last.prePassengers = <<>>
  /\ last.outcome = "returned"
  /\ last.stats.totalPassengers = 0

(* the columns of the import, in the order of the values of a line *)
ImportFields ==
  <<"firstName", "lastName", "email", "phone", "passportNumber", "nationality",
    "dateOfBirth", "seatNumber", "flightNumber", "departureCity", "arrivalCity",
    "departureDate", "ticketClass", "price", "status">>

NullableFields ==
  {"phone", "passportNumber", "nationality", "dateOfBirth", "seatNumber",
   "ticketClass", "price"}

NonNullableFields ==
  {"firstName", "lastName", "email", "flightNumber", "departureCity",
   "arrivalCity", "departureDate"}

(* the rows the last call appended to the table *)
insertedRows ==
  SubSeq(passengers, Len(last.prePassengers) + 1, Len(passengers))

(* the i-th value of the line is missing or empty *)
missingValue(values, i) == i > Len(values) \/ values[i] = EMPTY

(* C10: an import that meets no store error inserts one row per data line,
   also for a line with fewer values than columns or with empty values; in
   the row every missing nullable field is null and every missing
   non-nullable field is the empty string. *)
C10_MissingValues ==
  (last.op = "importPassengersFromCSV" /\ last.fault = 0)
    => LET lines == dataLinesOf(last.csv)
       IN /\ last.success
          /\ last.count = Len(lines)
          /\ Len(insertedRows) = Len(lines)
          /\ \A k \in 1..Len(lines) :
               LET values == split(lines[k], ",")
               IN \A i \in 1..Len(ImportFields) :
                    missingValue(values, i)
                      => /\ (ImportFields[i] \in NullableFields
                               => insertedRows[k][ImportFields[i]] = NULL)
                         /\ (ImportFields[i] \in NonNullableFields
                               => insertedRows[k][ImportFields[i]] = EMPTY)

(* an import has inserted a row from a line of two values and a row from a
   line with an empty lastName and an empty phone *)
C10_Witness ==
  /\ last.op = "importPassengersFromCSV" /\ last.success
  /\ Len(insertedRows) = 2
  /\ insertedRows[1].lastName = EMPTY /\ insertedRows[1].phone = NULL
  /\ insertedRows[1].firstName = <<"Bia">>
  /\ insertedRows[2].firstName = <<"x">>
  /\ insertedRows[2].email = EMPTY /\ insertedRows[2].price = NULL

-----------------------------------------------------------------------------
(* Properties of the CSV parsers, checked under SpecCsv *)

(* the fields of parseCSVContent, in the order of the values of a line *)
ParseFields ==
  <<"firstName", "lastName", "email", "nationality", "dateOfBirth",
    "departureCity", "arrivalCity", "departureDate", "distance", "flightCost">>

parsedFields == IF parsed.by = "importParse" THEN ImportFields ELSE ParseFields

HeaderValues == << <<"a">>, <<"b">> >>

(* the lines of the text of csvSource, each as its list of values *)
textLines ==
  (IF csvSource.lead THEN <<ValuesBlank>> ELSE <<>>)
    \o <<HeaderValues>>
    \o csvSource.lines
    \o (IF csvSource.trail THEN <<ValuesBlank>> ELSE <<>>)

(* a line that is not blank: it has a comma, or a value with a character
   that is not whitespace *)
inkLine(values) ==
  \/ Len(values) > 1
  \/ \E i \in 1..Len(values[1]) : ~IsWhitespace(values[1][i])

(* the i-th value of the line is in the i-th field of the row *)
rowCarries(row, values, fields) ==
  \A i \in 1..Len(fields) :
    (i <= Len(values) /\ values[i] # EMPTY) => row[fields[i]] = values[i]

(* the parsed rows are, in order, the rows of these lines *)
parsedRowsAre(lines) ==
  /\ Len(parsed.rows) = Len(lines)
  /\ \A k \in 1..Len(lines) : rowCarries(parsed.rows[k], lines[k], parsedFields)

(* C9 as stated: parsing discards the first line of the text and gives one
   row per remaining line that is not blank, in order, the i-th value of the
   line in the i-th field. *)
C9_AsStated ==
  parsed.by # "none" => parsedRowsAre(SelectSeq(Tail(textLines), inkLine))

(* the lines with the trailing whitespace of the last one taken off *)
withoutTrailingWhitespace(lines) ==
  IF lines = <<>> THEN lines
  ELSE LET values == lines[Len(lines)]
       IN [lines EXCEPT
             ![Len(lines)] = [values EXCEPT ![Len(values)] = trimEnd(@)]]

(* C9 amended: parsing strips the whitespace around the whole text, discards
   the first line of what is left (the first line of the text that is not
   blank) and gives one row per remaining line that is not blank, in order,
   the i-th value of the line in the i-th field, the last such line taken
   without its trailing whitespace. *)
C9_TrimmedTextRows ==
  parsed.by # "none"
    => parsedRowsAre(withoutTrailingWhitespace(SelectSeq(csvSource.lines, inkLine)))

(* a text of a header, a line of values, a blank line and a newline has been
   parsed into one row *)
C9_Witness ==
  /\ parsed.by # "none"
  /\ ~csvSource.lead /\ csvSource.trail
  /\ csvSource.lines = <<ValuesShort, ValuesSpaces>>
  /\ Len(parsed.rows) = 1
  /\ parsed.rows[1].firstName = <<"x">> /\ parsed.rows[1].lastName = <<"y">>

-----------------------------------------------------------------------------
(* Further properties of the todo tools, checked under SpecTodos *)

(* the rows of table other than the row id *)
otherTodos(table, id) == {table[k] : k \in {j \in 1..Len(table) : table[j].id # id}}

(* C11: TOGGLE_TODO of an id that is not in the table does not return and
   leaves the table as it was, failing with NotFound whenever the store
   answers the lookup; of an id that is in the table, when it returns, the
   row has the flipped completed value, no other row has changed, and the
   returned todo has the id and the new value. *)
C11_ToggleTodo ==
  last.op = "toggleTodo"
    => /\ (last.id \notin Ids(last.preTodos)
             => /\ last.outcome # "returned"
                /\ todos = last.preTodos
                /\ (last.fault \notin {1, 2} => last.outcome = "NotFound"))
       /\ ((last.id \in Ids(last.preTodos) /\ last.outcome = "returned")
             => /\ last.id \in Ids(todos)
                /\ completedOf(todos, last.id)
                     = 1 - completedOf(last.preTodos, last.id)
                /\ otherTodos(todos, last.id) = otherTodos(last.preTodos, last.id)
                /\ Len(todos) = Len(last.preTodos)
                /\ Len(last.rows) = 1
                /\ last.rows[1].id = last.id
                /\ last.rows[1].completed = (completedOf(todos, last.id) = 1))
       /\ ((last.id \in Ids(last.preTodos) /\ last.fault = 0)
             => last.outcome = "returned")

(* a first toggle of one of two todos has returned it completed, the other
   todo not completed *)
C11_Witness ==
  /\ last.op = "toggleTodo" /\ last.outcome = "returned" /\ ~last.again
  /\ Len(todos) = 2
  /\ last.rows[1].completed = TRUE
  /\ \E t \in otherTodos(todos, last.id) : t.completed = 0

(* C12 as stated: when the collaborator answers with an empty title or with
   no title, GENERATE_TODO_WITH_AI fails with GenerationError and inserts no
   row; when it answers with a title the call inserts one row, not
   completed, and returns it with the id the store assigned. *)
C12_AsStated ==
  (last.op = "generateTodo" /\ last.fault = 0 /\ ~last.context.aiFails)
    => IF last.context.title \in {UNDEFINED, ""}
       THEN /\ last.outcome = "GenerationError"
            /\ todos = last.preTodos
       ELSE /\ last.outcome = "returned"
            /\ Len(todos) = Len(last.preTodos) + 1
            /\ SubSeq(todos, 1, Len(last.preTodos)) = last.preTodos
            /\ todos[Len(todos)].completed = 0
            /\ todos[Len(todos)].id \notin Ids(last.preTodos)
            /\ last.rows[1].id = todos[Len(todos)].id
            /\ last.rows[1].completed = FALSE

(* C16 as stated: no call ends with the store's own error reaching the
   caller; a store error is rethrown wrapped or returned as a result without
   success. *)
C16_AsStated ==
  last.fault # 0
    => \/ last.outcome = "WrappedError"
       \/ last.outcome = "returned" /\ ~last.success
       \/ last.outcome \in {"NotFound", "GenerationError", "CollaboratorError"}

-----------------------------------------------------------------------------
(* Further properties of the passenger tools, checked under SpecPassengers *)

bulkInsertCall == last.op \in {"importPassengersFromCSV", "populateTestData"}

(* C13 as stated: the importedCount of every import or populate call, failed
   or not, is the number of rows the call added to the table. *)
C13_AsStated ==
  bulkInsertCall => last.count = Len(passengers) - Len(last.prePassengers)

(* C14 as stated: an import or populate call that does not succeed leaves the
   table as it was before the call. *)
C14_AsStated ==
  (bulkInsertCall /\ ~last.success) => passengers = last.prePassengers

(* the rows the last import or populate call set out to insert *)
plannedRows ==
  IF last.op = "importPassengersFromCSV" THEN importParse(last.csv)
  ELSE IF last.prePassengers # <<>> THEN <<>>
  ELSE IF deployment = "tools.ts" THEN importParse(csvData)
  ELSE parseCSVContent(getCSVContent)

(* the number of the insert that the store fails, counted from 1 (the import
   makes one store call before its inserts, populate two) *)
failedInsert ==
  last.fault - (IF last.op = "importPassengersFromCSV" THEN 1 ELSE 2)

(* C19: when the k-th insert of an import or populate call fails, the call
   reports failure, the rows that were in the table are still there, followed
   by the k-1 rows inserted before the failure, and no later row of the call
   is in the table. *)
C19_PartialImportRemains ==
  (bulkInsertCall /\ failedInsert \in 1..Len(plannedRows))
    => /\ ~last.success
       /\ Len(insertedRows) = failedInsert - 1
       /\ SubSeq(passengers, 1, Len(last.prePassengers)) = last.prePassengers
       /\ \A j \in 1..Len(insertedRows) :
            /\ insertedRows[j].firstName = plannedRows[j].firstName
            /\ insertedRows[j].email = plannedRows[j].email

(* the second insert of a call has failed and the first row of the call is
   in the table *)
C19_Witness ==
  /\ bulkInsertCall /\ failedInsert = 2 /\ Len(plannedRows) >= 2
  /\ ~last.success
  /\ Len(insertedRows) = 1
  /\ insertedRows[1].firstName = plannedRows[1].firstName

(* the store raises during the last call *)
hitsStoreError ==
  IF last.op = "clearDatabase" THEN clearHitsStoreError
  ELSE IF last.op = "importPassengersFromCSV"
  THEN last.fault = 1 \/ failedInsert \in 1..Len(plannedRows)
  ELSE IF last.op = "populateTestData"
  THEN last.fault \in {1, 2} \/ failedInsert \in 1..Len(plannedRows)
  ELSE last.fault # 0

(* C15: a store error during GET_PASSENGERS or GET_PASSENGER_STATS reaches
   the caller as a thrown error with the tool's message in front; during
   CLEAR_DATABASE, POPULATE_TEST_DATA or IMPORT_PASSENGERS_FROM_CSV the call
   returns, with success false and a message. *)
C15_StoreErrorPolicy ==
  /\ ((last.op \in {"getPassengers", "getPassengerStats"} /\ hitsStoreError)
        => /\ last.outcome = "WrappedError"
           /\ last.message = (IF last.op = "getPassengers"
                              THEN "Error fetching passengers"
                              ELSE "Error calculating passenger stats"))
  /\ (last.op \in {"clearDatabase", "populateTestData", "importPassengersFromCSV"}
        => /\ last.outcome = "returned"
           /\ (hitsStoreError
                 => /\ ~last.success
                    /\ last.message \in {"Error", "Error clearing database"}))

(* an import whose getDb raised has returned without success *)
C15_Witness ==
  /\ last.op = "importPassengersFromCSV" /\ last.fault = 1
  /\ last.outcome = "returned" /\ ~last.success
  /\ last.prePassengers # <<>>

(* C17 as stated: totalCount is the number of rows of the table that meet the
   supplied filters (those with a value), whatever the limit (a number of
   rows, N >= 0). *)
C17_AsStated ==
  (getPassengersReturned
     /\ ("limit" \in DOMAIN last.context => last.context["limit"] >= 0))
    => last.count =
         Cardinality({k \in 1..Len(last.prePassengers) :
            \A f \in {g \in suppliedFilters : last.context[g] # EMPTY} :
              last.prePassengers[k][f] = last.context[f]})

UNKNOWN == <<"unknown">>

(* the rows of the table whose field f is the value of key, a null or empty
   field being the key unknown *)
rowsUnder(table, f, key) ==
  {k \in 1..Len(table) :
     (IF table[k][f] \in {NULL, EMPTY} THEN UNKNOWN ELSE table[k][f]) = key}

RECURSIVE sumOf(_)
sumOf(counts) ==
  IF DOMAIN counts = {} THEN 0
  ELSE LET x == CHOOSE y \in DOMAIN counts : TRUE
       IN counts[x] + sumOf([y \in DOMAIN counts \ {x} |-> counts[y]])

(* the grouping table holds, for field f, exactly the keys of the rows, each
   with the number of its rows *)
countsRowsBy(counts, table, f) ==
  /\ \A k \in 1..Len(table) : \E key \in DOMAIN counts : k \in rowsUnder(table, f, key)
  /\ \A key \in DOMAIN counts :
       /\ rowsUnder(table, f, key) # {}
       /\ counts[key] = Cardinality(rowsUnder(table, f, key))
  /\ sumOf(counts) = Len(table)

(* C20: for a table that is not empty GET_PASSENGER_STATS returns
   totalPassengers equal to the number of rows, and byTicketClass, byStatus
   and byFlight give for each key the number of rows with that value of the
   field, rows with a null or empty field under unknown; the counts of each
   table add up to totalPassengers. *)
C20_StatsCounts ==
  (last.op = "getPassengerStats" /\ last.outcome = "returned"
     /\ last.prePassengers # <<>>)
    => /\ last.stats.totalPassengers = Len(last.prePassengers)
       /\ countsRowsBy(last.stats.byTicketClass, last.prePassengers, "ticketClass")
       /\ countsRowsBy(last.stats.byStatus, last.prePassengers, "status")
       /\ countsRowsBy(last.stats.byFlight, last.prePassengers, "flightNumber")

(* the statistics of three rows have been returned: two ticket classes and a
   row without one, two rows of one flight and a row without a flight *)
C20_Witness ==
  /\ last.op = "getPassengerStats" /\ last.outcome = "returned"
  /\ last.stats.totalPassengers = 3
  /\ Cardinality(DOMAIN last.stats.byTicketClass) = 3
  /\ UNKNOWN \in DOMAIN last.stats.byTicketClass
  /\ UNKNOWN \in DOMAIN last.stats.byFlight
  /\ \E key \in DOMAIN last.stats.byFlight : last.stats.byFlight[key] = 2

-----------------------------------------------------------------------------
(* Properties of the ids of the rows, checked under SpecStore *)

uniqueIds(table) == Cardinality(Ids(table)) = Len(table)

idsOf(table) == [k \in 1..Len(table) |-> table[k].id]

(* the rows of pre that are still in post are the first rows of post, in the
   order and with the ids they had *)
survivorsKeepIds(pre, post) ==
  LET kept == SelectSeq(idsOf(pre), LAMBDA id : id \in Ids(post))
  IN /\ Len(kept) <= Len(post)
     /\ SubSeq(idsOf(post), 1, Len(kept)) = kept
     /\ \A k \in (Len(kept) + 1)..Len(post) : post[k].id \notin Ids(pre)

(* the row of table with this id *)
rowWithId(table, id) == CHOOSE r \in {table[k] : k \in 1..Len(table)} : r.id = id

(* C18: in every state the ids of the todos are distinct and so are the ids
   of the passengers; over every call the rows that stay keep their ids: a
   passenger with an id of before the call is the same row, a todo with an id
   of before the call has the same title. *)
C18_IdsUniqueAndKept ==
  /\ uniqueIds(todos) /\ uniqueIds(passengers)
  /\ survivorsKeepIds(last.preTodos, todos)
  /\ survivorsKeepIds(last.prePassengers, passengers)
  /\ \A id \in Ids(last.prePassengers) \cap Ids(passengers) :
       rowWithId(passengers, id) = rowWithId(last.prePassengers, id)
  /\ \A id \in Ids(last.preTodos) \cap Ids(todos) :
       rowWithId(todos, id).title = rowWithId(last.preTodos, id).title

(* the first of two todos has been deleted, the second has kept its id, and
   the passengers table holds three rows, the first two from the same line of
   two imports *)
C18_Witness ==
  /\ last.op = "deleteTodo" /\ last.outcome = "returned" /\ last.id = 1
  /\ idsOf(last.preTodos) = <<1, 2>>
  /\ idsOf(todos) = <<2>>
  /\ idsOf(passengers) = <<1, 2, 3>>
  /\ passengers[1].firstName = passengers[2].firstName

-----------------------------------------------------------------------------
(* Properties of the average price, checked under SpecPassengers *)

(* the rows of the table whose price parseFloat reads as a number *)
parseablePrices(table) ==
  {k \in 1..Len(table) :
     table[k].price \notin {NULL, EMPTY} /\ ~parseFloat(table[k].price).nan}

RECURSIVE sumOfPrices(_, _)
sumOfPrices(table, rows) ==
  IF rows = {} THEN 0
  ELSE LET k == CHOOSE j \in rows : TRUE
       IN parseFloat(table[k].price).cents + sumOfPrices(table, rows \ {k})

(* C21: GET_PASSENGER_STATS never fails on a price: whatever the prices of
   the rows, a call the store answers returns; its averagePrice is 0 when no
   row has a parseable price, and otherwise the sum of the parseable prices
   divided by their number, rounded to a hundredth (a hundredth nearest to
   the quotient); rows with a null, empty or non-numeric price are neither
   summed nor counted. *)
C21_AveragePrice ==
  (last.op = "getPassengerStats" /\ last.fault = 0)
    => /\ last.outcome = "returned"
       /\ LET rows == parseablePrices(last.prePassengers)
              n == Cardinality(rows)
              total == sumOfPrices(last.prePassengers, rows)
              average == last.stats.averagePrice
          IN IF n = 0 THEN average = 0
             ELSE /\ 2 * average * n <= 2 * total + n
                  /\ 2 * total - n <= 2 * average * n

(* the statistics of three rows have been returned: a price that is a number,
   a price that is no number and a row without a price *)
C21_Witness ==
  /\ last.op = "getPassengerStats" /\ last.outcome = "returned"
  /\ Len(last.prePassengers) = 3
  /\ Cardinality(parseablePrices(last.prePassengers)) = 1
  /\ \E k \in 1..3 : last.prePassengers[k].price = NULL
  /\ \E k \in 1..3 : last.prePassengers[k].price \notin {NULL, EMPTY}
                        /\ parseFloat(last.prePassengers[k].price).nan
  /\ last.stats.averagePrice > 0

-----------------------------------------------------------------------------
(* Properties of the limit, checked under SpecPassengers *)

meetsFilters(p, F) == \A f \in F : p[f] = last.context[f]

(* C22: GET_PASSENGERS without a limit, or with limit 0, truncates nothing:
   the returned rows are, in the order of the table, exactly the rows of the
   table that meet the filters that carry a value (in schema.ts their cleaned
   projections), so no row that meets every supplied filter is missing. *)
C22_NoLimitNoTruncation ==
  (getPassengersReturned
     /\ ("limit" \in DOMAIN last.context => last.context["limit"] = 0))
    => LET effective == {f \in suppliedFilters : last.context[f] # EMPTY}
           expected == SelectSeq(last.prePassengers,
                                 LAMBDA p : meetsFilters(p, effective))
       IN /\ Len(last.rows) = Len(expected)
          /\ \A k \in 1..Len(expected) :
               /\ last.rows[k].id = expected[k].id
               /\ (deployment = "tools.ts" => last.rows[k] = expected[k])
               /\ (deployment = "schema.ts" => last.rows[k] = cleaned(expected[k]))
          /\ \A k \in 1..Len(last.prePassengers) :
               meetsFilters(last.prePassengers[k], suppliedFilters)
                 => \E j \in 1..Len(last.rows) :
                      last.rows[j].id = last.prePassengers[k].id
          /\ last.count = Len(expected)

(* a call with the status filter and limit 0 has returned, in the order of
   the table, the two rows that have that status out of three *)
C22_Witness ==
  /\ getPassengersReturned
  /\ DOMAIN last.context = {"status", "limit"}
  /\ last.context["limit"] = 0
  /\ Len(last.prePassengers) = 3
  /\ Len(last.rows) = 2
  /\ last.rows[1].id < last.rows[2].id

-----------------------------------------------------------------------------
(* Properties of the flight numbers of schema.ts, checked under
   SpecPassengers *)

(* BR and i in four digits, for i up to 9 *)
flightNumberOf(i) ==
  <<"B", "R", "0", "0", "0">>
    \o <<(<<"1", "2", "3", "4", "5", "6", "7", "8", "9">>)[i]>>

(* C23: in schema.ts the i-th row a POPULATE_TEST_DATA call inserts, i from
   1, carries flightNumber BR followed by i in four digits, whatever calls
   came before: the numbering restarts at 1 in every call, and the rows of
   one call carry distinct flight numbers. *)
C23_FlightNumbers ==
  (deployment = "schema.ts" /\ last.op = "populateTestData")
    => /\ \A i \in 1..Len(insertedRows) :
            insertedRows[i].flightNumber = flightNumberOf(i)
       /\ \A i, j \in 1..Len(insertedRows) :
            insertedRows[i].flightNumber = insertedRows[j].flightNumber => i = j
       /\ (last.success /\ last.count > 0 => Len(insertedRows) = last.count)

(* a schema.ts populate call has inserted two rows, BR0001 and BR0002 *)
C23_Witness ==
  /\ deployment = "schema.ts" /\ last.op = "populateTestData"
  /\ last.success /\ last.count = 2
  /\ Len(insertedRows) = 2
  /\ insertedRows[1].flightNumber = <<"B", "R", "0", "0", "0", "1">>
  /\ insertedRows[2].flightNumber = <<"B", "R", "0", "0", "0", "2">>

-----------------------------------------------------------------------------
(* Properties of the status of inserted rows, checked under SpecPassengers *)

(* the status the k-th data line of the text gives, or CONFIRMED when the
   line gives none *)
statusOfLine(csv, k) ==
  LET values == split(dataLinesOf(csv)[k], ",")
  IN IF missingValue(values, 15) THEN CONFIRMED ELSE values[15]

(* C24: no row inserted by IMPORT_PASSENGERS_FROM_CSV or POPULATE_TEST_DATA
   has a null or empty status; a row whose line gives no status value, and
   every row of the schema.ts populate (which never gives one), has the
   status confirmed; a status the line gives is stored as given. *)
C24_StatusConfirmed ==
  (last.op \in {"importPassengersFromCSV", "populateTestData"})
    => /\ \A k \in 1..Len(insertedRows) :
            insertedRows[k].status \notin {NULL, EMPTY}
       /\ (last.op = "importPassengersFromCSV"
             => \A k \in 1..Len(insertedRows) :
                  insertedRows[k].status = statusOfLine(last.csv, k))
       /\ (last.op = "populateTestData" /\ deployment = "tools.ts"
             => \A k \in 1..Len(insertedRows) :
                  insertedRows[k].status = statusOfLine(csvData, k))
       /\ (last.op = "populateTestData" /\ deployment = "schema.ts"
             => \A k \in 1..Len(insertedRows) :
                  insertedRows[k].status = CONFIRMED)

(* an import has inserted a row from a line without a status value, stored
   as confirmed *)
C24_Witness ==
  /\ last.op = "importPassengersFromCSV" /\ last.success
  /\ \E k \in 1..Len(insertedRows) :
       /\ missingValue(split(dataLinesOf(last.csv)[k], ","), 15)
       /\ insertedRows[k].status = CONFIRMED

(* a schema.ts populate has inserted rows, each stored as confirmed *)
C24_WitnessSchema ==
  /\ last.op = "populateTestData" /\ deployment = "schema.ts"
  /\ Len(insertedRows) = 2
  /\ \A k \in 1..2 : insertedRows[k].status = CONFIRMED

-----------------------------------------------------------------------------
(* Concurrent requests.  A handler gives way to other requests at each store
   call it awaits: a request runs from one awaited store call to the next in
   one step, and the steps of different requests interleave.  The store
   runs each statement by itself: there is no lock and no transaction over
   the statements of a handler.  requests holds every request received, with
   the position of its handler, what its select read, and, once it is done,
   what its caller got. *)

MaxRequests == 3

(* a request whose handler has made its first store call *)
Request(op, id) ==
  [op |-> op, id |-> id, pc |-> "done", seen |-> <<>>, outcome |-> "returned",
   success |-> FALSE, rows |-> <<>>, count |-> 0, written |-> 0]

(* the request is received *)
receive(request) ==
  /\ Len(requests) < MaxRequests
  /\ requests' = Append(requests, request)

(* request r is at position pc of the handler of op *)
at(r, op, pc) ==
  /\ r \in DOMAIN requests
  /\ requests[r].op = op /\ requests[r].pc = pc

(* TOGGLE_TODO up to its update: the select and the check of its result *)
toggleTodoSelect(id) ==
  /\ Registered("TOGGLE_TODO")
  /\ LET currentTodo == selectTodo(todos, id)
         request == Request("toggleTodo", id)
     IN receive(IF Len(currentTodo) = 0
                THEN [request EXCEPT !.outcome = "NotFound"]
                ELSE [request EXCEPT !.pc = "update", !.seen = currentTodo,
                                     !.outcome = "pending"])
  /\ UNCHANGED <<deployment, todos, passengers, last, csvSource, csvContent,
                 parsed, client>>

(* TOGGLE_TODO from its update on: the update writes the value computed from
   the row the select read and returns the rows it changed; the handler reads
   the first of them *)
toggleTodoUpdate(r) ==
  /\ at(r, "toggleTodo", "update")
  /\ LET id == requests[r].id
         currentTodo == requests[r].seen
         updated == updateCompleted(todos, id, newCompletedStatus(currentTodo[1]))
         updatedTodo == selectTodo(updated, id)
     IN /\ todos' = updated
        /\ requests' =
             [requests EXCEPT
                ![r] = [@ EXCEPT
                          !.pc = "done",
                          !.written = Len(updatedTodo),
                          !.outcome = IF Len(updatedTodo) = 0 THEN "TypeError"
                                      ELSE "returned",
                          !.rows = todosView(updatedTodo)]]
  /\ UNCHANGED <<deployment, passengers, last, csvSource, csvContent, parsed,
                 client>>

(* DELETE_TODO up to its delete *)
deleteTodoSelect(id) ==
  /\ Registered("DELETE_TODO")
  /\ LET existingTodo == selectTodo(todos, id)
         request == Request("deleteTodo", id)
     IN receive(IF Len(existingTodo) = 0
                THEN [request EXCEPT !.outcome = "NotFound"]
                ELSE [request EXCEPT !.pc = "delete", !.seen = existingTodo,
                                     !.outcome = "pending"])
  /\ UNCHANGED <<deployment, todos, passengers, last, csvSource, csvContent,
                 parsed, client>>

(* DELETE_TODO from its delete on *)
deleteTodoDelete(r) ==
  /\ at(r, "deleteTodo", "delete")
  /\ todos' = deleteTodoRow(todos, requests[r].id)
  /\ requests' =
       [requests EXCEPT
          ![r] = [@ EXCEPT !.pc = "done", !.outcome = "returned",
                           !.success = TRUE,
                           !.written = Len(selectTodo(todos, requests[r].id))]]
  /\ UNCHANGED <<deployment, passengers, last, csvSource, csvContent, parsed,
                 client>>

(* the passengerData objects the loop of POPULATE_TEST_DATA of tools.ts
   builds from csvData, in order *)
testPassengerDataTools == importParse(csvData)

(* those insertPassengers of schema.ts builds from the parsed getCSVContent *)
testPassengerDataSchema ==
  LET parsedRows == parseCSVContent(getCSVContent)
  IN [k \in 1..Len(parsedRows) |-> insertPassengerData(parsedRows[k], k - 1)]

testPassengerData ==
  IF deployment = "tools.ts" THEN testPassengerDataTools
  ELSE testPassengerDataSchema

(* POPULATE_TEST_DATA up to its first insert: the select of the guard and the
   check of its result *)
populateTestDataGuard ==
  /\ Registered("POPULATE_TEST_DATA")
  /\ LET found == IF deployment = "tools.ts"
                  THEN existingPassengersFound(passengers)
                  ELSE hasExistingData(passengers)
         request == Request("populateTestData", 0)
     IN receive(IF found
                THEN [request EXCEPT !.success = TRUE, !.count = 0]
                ELSE [request EXCEPT !.pc = "insert", !.outcome = "pending"])
  /\ UNCHANGED <<deployment, todos, passengers, last, csvSource, csvContent,
                 parsed, client>>

(* one turn of the insert loop of POPULATE_TEST_DATA: the insert of the next
   row, and the return after the last one or after an insert that failed *)
populateTestDataInsert(r) ==
  /\ at(r, "populateTestData", "insert")
  /\ Len(passengers) < MaxPassengers
  /\ LET importedCount == requests[r].written
         datas == testPassengerData
         run == insertEach(passengers, <<datas[importedCount + 1]>>, 0, 1, 0)
         done == run.failed \/ importedCount + 1 = Len(datas)
     IN /\ passengers' = run.table
        /\ requests' =
             [requests EXCEPT
                ![r] = [@ EXCEPT
                          !.written = importedCount + run.count,
                          !.pc = IF done THEN "done" ELSE "insert",
                          !.outcome = IF done THEN "returned" ELSE "pending",
                          !.success = done /\ ~run.failed,
                          !.count = IF done /\ ~run.failed
                                    THEN importedCount + 1 ELSE 0]]
  /\ UNCHANGED <<deployment, todos, last, csvSource, csvContent, parsed, client>>

(* CLEAR_DATABASE up to its delete: the select and the count of its rows *)
clearDatabaseSelect ==
  /\ Registered("CLEAR_DATABASE")
  /\ LET existingPassengers == passengers
         deletedCount == deletedCountOf(existingPassengers)
         request == Request("clearDatabase", 0)
     IN receive(IF deletedCount = 0
                THEN [request EXCEPT !.success = TRUE, !.count = 0]
                ELSE [request EXCEPT !.pc = "delete", !.outcome = "pending",
                                     !.seen = existingPassengers])
  /\ UNCHANGED <<deployment, todos, passengers, last, csvSource, csvContent,
                 parsed, client>>

(* CLEAR_DATABASE from its delete on: the delete removes the rows the table
   holds now, the result carries the count taken from the select *)
clearDatabaseDelete(r) ==
  /\ at(r, "clearDatabase", "delete")
  /\ passengers' = deleteAll(passengers)
  /\ requests' =
       [requests EXCEPT
          ![r] = [@ EXCEPT !.pc = "done", !.outcome = "returned",
                           !.success = TRUE,
                           !.count = deletedCountOf(requests[r].seen),
                           !.written = Len(passengers) - Len(deleteAll(passengers))]]
  /\ UNCHANGED <<deployment, todos, last, csvSource, csvContent, parsed, client>>

(* the passenger tools that write, under concurrent requests *)
NextConcurrentPassengers ==
  \/ populateTestDataGuard
  \/ \E r \in 1..MaxRequests : populateTestDataInsert(r)
  \/ clearDatabaseSelect
  \/ \E r \in 1..MaxRequests : clearDatabaseDelete(r)

SpecConcurrentPassengers == Init /\ [][NextConcurrentPassengers]_vars

(* the todo tools under concurrent requests; GENERATE_TODO_WITH_AI makes one
   store call that changes the store, so it is one step *)
NextConcurrentTodos ==
  \/ generateTodo("Buy milk", FALSE, 0)
  \/ \E id \in TodoIds : toggleTodoSelect(id)
  \/ \E r \in 1..MaxRequests : toggleTodoUpdate(r)
  \/ \E id \in TodoIds : deleteTodoSelect(id)
  \/ \E r \in 1..MaxRequests : deleteTodoDelete(r)

SpecConcurrentTodos == Init /\ [][NextConcurrentTodos]_vars

-----------------------------------------------------------------------------
(* Properties of concurrent todo requests, checked under
   SpecConcurrentTodos *)

(* the requests of op on id that have returned to their caller *)
returnedRequests(op, id) ==
  {r \in 1..Len(requests) :
     /\ requests[r].op = op /\ requests[r].id = id
     /\ requests[r].pc = "done" /\ requests[r].outcome = "returned"}

(* no DELETE_TODO request on id has been received: the row with this id is
   the row GENERATE_TODO_WITH_AI inserted, with completed 0 *)
neverDeleted(id) ==
  \A r \in 1..Len(requests) :
    ~(requests[r].op = "deleteTodo" /\ requests[r].id = id)

(* C25 as stated: whatever the interleaving of TOGGLE_TODO requests on a
   todo, after n of them have returned the stored completed value is the
   original value (0) when n is even and its negation (1) when n is odd: no
   toggle is lost. *)
C25_AsStated ==
  \A k \in 1..Len(todos) :
    neverDeleted(todos[k].id)
      => todos[k].completed =
           Cardinality(returnedRequests("toggleTodo", todos[k].id)) % 2

(* C27 as stated: whatever the interleaving of TOGGLE_TODO and DELETE_TODO
   requests on a todo, a TOGGLE_TODO request that is done has returned the
   row its update wrote or has failed with NotFound, and with nothing else. *)
C27_AsStated ==
  \A r \in 1..Len(requests) :
    (requests[r].op = "toggleTodo" /\ requests[r].pc = "done")
      => \/ requests[r].outcome = "NotFound"
         \/ /\ requests[r].outcome = "returned"
            /\ requests[r].written = 1
            /\ Len(requests[r].rows) = 1
            /\ requests[r].rows[1].id = requests[r].id

-----------------------------------------------------------------------------
(* Properties of concurrent passenger requests, checked under
   SpecConcurrentPassengers *)

(* the requests received so far are all POPULATE_TEST_DATA requests: the
   table was empty when the first of them came *)
onlyPopulateRequests ==
  \A r \in 1..Len(requests) : requests[r].op = "populateTestData"

(* C26 as stated: whatever the interleaving of POPULATE_TEST_DATA requests
   that start from an empty table, at most one of them inserts rows, every
   other one that is done reports importedCount 0, and the table holds at
   most one copy of the test data. *)
C26_AsStated ==
  onlyPopulateRequests
    => /\ Cardinality({r \in 1..Len(requests) : requests[r].written > 0}) <= 1
       /\ Cardinality({r \in 1..Len(requests) :
                         requests[r].pc = "done" /\ requests[r].count > 0}) <= 1
       /\ Len(passengers) <= Len(testPassengerData)

(* C28 as stated: whatever the interleaving of CLEAR_DATABASE with requests
   that insert passengers, the deletedCount of a CLEAR_DATABASE that ran its
   delete and returned success is the number of rows the delete removed. *)
C28_AsStated ==
  \A r \in 1..Len(requests) :
    (requests[r].op = "clearDatabase" /\ requests[r].pc = "done"
       /\ requests[r].success /\ requests[r].seen # <<>>)
      => requests[r].count = requests[r].written

-----------------------------------------------------------------------------
(* The client (src/view/src/lib/hooks.ts).  client.todos is the list cached
   under the query key todos once client.loaded; client.handled is the last
   response the client has handled.  The client calls a tool and then runs
   the callback of the call on the response, which the server has left in
   last; it makes its calls one after the other. *)

(* a response has come that the client has not handled yet *)
responsePending == last # client.handled

(* the updater of useGenerateTodoWithAI: old with data.todo appended *)
generateTodoOnSuccess(old, data) ==
  IF ~old.loaded THEN old
  ELSE [old EXCEPT !.todos = old.todos \o <<data.rows[1]>>]

(* the updater of useToggleTodo: the todo with the id of data.todo replaced *)
toggleTodoOnSuccess(old, data) ==
  IF ~old.loaded THEN old
  ELSE [old EXCEPT !.todos =
          [k \in 1..Len(old.todos) |->
             IF old.todos[k].id = data.rows[1].id THEN data.rows[1]
             ELSE old.todos[k]]]

(* an updater that removes nothing *)
deleteTodoOnSuccessKeeps(old, data) == old

(* the updater of useDeleteTodo: the todo with id data.deletedId removed *)
deleteTodoOnSuccess(old, data) ==
  IF ~old.loaded THEN old
  ELSE [old EXCEPT !.todos =
          SelectSeq(old.todos, LAMBDA todo : todo.id # data.id)]

(* useListTodos: the query function *)
useListTodos ==
  /\ ~responsePending
  /\ \E fault \in {0, 2} : listTodos(fault)

(* the mutation functions of useGenerateTodoWithAI, useToggleTodo and
   useDeleteTodo *)
useGenerateTodoWithAI ==
  /\ ~responsePending
  /\ \E generated \in GeneratedTitles, fault \in {0, 2} :
       generateTodo(generated, FALSE, fault)

useToggleTodo(id) ==
  /\ ~responsePending
  /\ \E fault \in {0, 3} : toggleTodo(id, fault)

useDeleteTodo(id) ==
  /\ ~responsePending
  /\ \E fault \in {0, 3} : deleteTodo(id, fault)

(* the response is handled: the data of the query is stored, the onSuccess
   of a mutation updates the cached list, a failed call changes nothing *)
settle ==
  /\ responsePending
  /\ LET old == [client EXCEPT !.handled = last]
     IN client' =
          IF last.outcome # "returned" THEN old
          ELSE IF last.op = "listTodos"
          THEN [old EXCEPT !.loaded = TRUE, !.todos = last.rows]
          ELSE IF last.op = "generateTodo" THEN generateTodoOnSuccess(old, last)
          ELSE IF last.op = "toggleTodo" THEN toggleTodoOnSuccess(old, last)
          ELSE IF last.op = "deleteTodo" THEN deleteTodoOnSuccess(old, last)
          ELSE old
  /\ UNCHANGED <<deployment, todos, passengers, last, csvSource, csvContent,
                 parsed, requests>>

NextClient ==
  \/ useListTodos
  \/ useGenerateTodoWithAI
  \/ \E id \in TodoIds : useToggleTodo(id)
  \/ \E id \in TodoIds : useDeleteTodo(id)
  \/ settle

SpecClient == Init /\ [][NextClient]_vars

-----------------------------------------------------------------------------
(* Properties of the client cache, checked under SpecClient *)

(* C29: once the list of todos is loaded and the client has handled the
   response of its last call, the cached list is the list of the todos in
   the store, each with its id, its title and its completed value, after
   every sequence of generate, toggle and delete mutations of the client. *)
C29_CacheMatchesStore ==
  (client.loaded /\ ~responsePending) => client.todos = todosView(todos)

(* with the list loaded the client has generated two todos, toggled one and
   has just handled the response of a delete: one completed todo is cached *)
C29_Witness ==
  /\ client.loaded /\ ~responsePending
  /\ last.op = "deleteTodo" /\ last.outcome = "returned"
  /\ Len(last.preTodos) = 2
  /\ Len(client.todos) = 1
  /\ client.todos[1].completed
  /\ client.todos[1].id = 2

-----------------------------------------------------------------------------
(* Frame of the todo tools, checked under SpecStore *)

TodoOps == {"listTodos", "generateTodo", "toggleTodo", "deleteTodo"}

(* the rows of table whose id is not id, in order *)
rowsBut(table, id) == SelectSeq(table, LAMBDA todo : todo.id # id)

(* C30: a todo tool changes at most the row it is about.  LIST_TODOS and
   every todo call that fails change nothing; GENERATE_TODO_WITH_AI only adds
   one row after the rows that were there; a TOGGLE_TODO that returns changes
   the completed value of the row with its id and nothing else (same rows,
   same ids, same titles); a DELETE_TODO that returns removes the row with
   its id and nothing else; the passengers table is left as it was. *)
C30_TodoFrame ==
  last.op \in TodoOps
    => /\ passengers = last.prePassengers
       /\ (last.op = "listTodos" \/ last.outcome # "returned"
             => todos = last.preTodos)
       /\ (last.op = "generateTodo" /\ last.outcome = "returned"
             => /\ Len(todos) = Len(last.preTodos) + 1
                /\ SubSeq(todos, 1, Len(last.preTodos)) = last.preTodos)
       /\ (last.op = "toggleTodo" /\ last.outcome = "returned"
             => /\ Len(todos) = Len(last.preTodos)
                /\ rowsBut(todos, last.id) = rowsBut(last.preTodos, last.id)
                /\ \A k \in 1..Len(todos) :
                     /\ todos[k].id = last.preTodos[k].id
                     /\ todos[k].title = last.preTodos[k].title
                     /\ (todos[k].id = last.id
                           => todos[k].completed # last.preTodos[k].completed))
       /\ (last.op = "deleteTodo" /\ last.outcome = "returned"
             => /\ todos = rowsBut(last.preTodos, last.id)
                /\ Len(todos) = Len(last.preTodos) - 1)

(* the second of two todos has been deleted while the first one, completed,
   and the rows of the passengers table have stayed *)
C30_Witness ==
  /\ last.op = "deleteTodo" /\ last.outcome = "returned" /\ last.id = 2
  /\ Len(last.preTodos) = 2
  /\ Len(todos) = 1 /\ todos[1].id = 1 /\ todos[1].completed = 1
  /\ passengers # <<>>

(* a todo has been toggled beside another todo and a table of passengers *)
C30_WitnessToggle ==
  /\ last.op = "toggleTodo" /\ last.outcome = "returned" /\ last.id = 1
  /\ Len(todos) = 2 /\ todos[2].completed = 1
  /\ passengers # <<>>

====
